---- MODULE Spec2Model ----
(***************************************************************************)
(* English -> Libran translator (converter.py) and the sine synthesizer    *)
(* (synthesizer.py), modelled call by call (Spec, SynthSpec) and, for     *)
(* english_to_libran, statement by statement with overlapping callers      *)
(* (CallersSpec).                                                          *)
(*                                                                         *)
(* A Python str is a sequence of characters; a character is a one-element  *)
(* TLA+ string.  Characters outside ASCII are written by code point name:  *)
(*   "U+00E9" e-acute (lowercase letter)   "U+00C9" E-acute (uppercase)    *)
(*   "U+00DF" sharp s (upper() is "SS")    "U+0130" I with dot above       *)
(*   "U+0307" combining dot above          "U+00B2" superscript two        *)
(*   "U+0663" arabic-indic digit three                                     *)
(* A function that can raise returns <<"ok", value>> or <<"raise", name>>. *)
(***************************************************************************)
EXTENDS Integers, Sequences, FiniteSets, TLC

VARIABLES
    DEFAULT_DICTIONARY,   \* converter.py module constant (a dict)
    _SYLLABLES,           \* converter.py module constant (a list)
    VOWEL_SUFFIXES,       \* converter.py module constant (a dict)
    caller_dictionary,    \* the caller's dictionary object, after the call
    calls,                \* the frame of each caller's english_to_libran call
    files,                \* the file system seen by LibranSynthesizer.save
    op,                   \* the function called last
    args,                 \* its arguments
    ret                   \* its result

vars == <<DEFAULT_DICTIONARY, _SYLLABLES, VOWEL_SUFFIXES, caller_dictionary,
          calls, files, op, args, ret>>

(***************************************************************************)
(* Characters and the str methods the code calls on them.                  *)
(***************************************************************************)
LOWER == <<"a","b","c","d","e","f","g","h","i","j","k","l","m",
           "n","o","p","q","r","s","t","u","v","w","x","y","z">>
UPPER == <<"A","B","C","D","E","F","G","H","I","J","K","L","M",
           "N","O","P","Q","R","S","T","U","V","W","X","Y","Z">>
DIGITS == <<"0","1","2","3","4","5","6","7","8","9">>

Range(s) == {s[i] : i \in DOMAIN s}
IndexOf(s, c) == CHOOSE i \in DOMAIN s : s[i] = c

AsciiLower == Range(LOWER)
AsciiUpper == Range(UPPER)
AsciiDigit == Range(DIGITS)

Whitespace == {" ", "\n", "\t"}
OtherChars == {"'", "!", ",", "U+00E9", "U+00C9", "U+00DF", "U+0130",
               "U+0307", "U+00B2", "U+0663"}
CHARS == AsciiLower \cup AsciiUpper \cup AsciiDigit \cup Whitespace \cup OtherChars

ord(c) ==
    IF c \in AsciiLower THEN 96 + IndexOf(LOWER, c)
    ELSE IF c \in AsciiUpper THEN 64 + IndexOf(UPPER, c)
    ELSE IF c \in AsciiDigit THEN 47 + IndexOf(DIGITS, c)
    ELSE CASE c = "\t" -> 9
           [] c = "\n" -> 10
           [] c = " " -> 32
           [] c = "!" -> 33
           [] c = "'" -> 39
           [] c = "," -> 44
           [] c = "U+00B2" -> 178
           [] c = "U+00C9" -> 201
           [] c = "U+00DF" -> 223
           [] c = "U+00E9" -> 233
           [] c = "U+0130" -> 304
           [] c = "U+0307" -> 775
           [] c = "U+0663" -> 1635

char_isalpha(c) == c \in AsciiLower \cup AsciiUpper
                        \cup {"U+00E9", "U+00C9", "U+00DF", "U+0130"}
char_isdigit(c) == c \in AsciiDigit \cup {"U+00B2", "U+0663"}
char_isalnum(c) == char_isalpha(c) \/ char_isdigit(c)
char_isspace(c) == c \in Whitespace
char_isupper(c) == c \in AsciiUpper \cup {"U+00C9", "U+0130"}
char_islower(c) == c \in AsciiLower \cup {"U+00E9", "U+00DF"}

\* str.lower(), str.upper() and the title-casing of str.capitalize() map one
\* character to a string that may be longer than one character.
char_lower(c) ==
    IF c \in AsciiUpper THEN <<LOWER[IndexOf(UPPER, c)]>>
    ELSE IF c = "U+00C9" THEN <<"U+00E9">>
    ELSE IF c = "U+0130" THEN <<"i", "U+0307">>
    ELSE <<c>>

char_upper(c) ==
    IF c \in AsciiLower THEN <<UPPER[IndexOf(LOWER, c)]>>
    ELSE IF c = "U+00E9" THEN <<"U+00C9">>
    ELSE IF c = "U+00DF" THEN <<"S", "S">>
    ELSE <<c>>

char_title(c) ==
    IF c = "U+00DF" THEN <<"S", "s">> ELSE char_upper(c)

RECURSIVE str_lower(_)
str_lower(s) == IF s = <<>> THEN <<>> ELSE char_lower(Head(s)) \o str_lower(Tail(s))

RECURSIVE str_upper(_)
str_upper(s) == IF s = <<>> THEN <<>> ELSE char_upper(Head(s)) \o str_upper(Tail(s))

str_capitalize(s) ==
    IF s = <<>> THEN <<>> ELSE char_title(Head(s)) \o str_lower(Tail(s))

\* str.isupper(): at least one cased character and no lowercase one.
str_isupper(s) ==
    /\ \E i \in DOMAIN s : char_isupper(s[i])
    /\ \A i \in DOMAIN s : ~char_islower(s[i])

str_isalpha(s) == s # <<>> /\ \A i \in DOMAIN s : char_isalpha(s[i])
str_isalnum(s) == s # <<>> /\ \A i \in DOMAIN s : char_isalnum(s[i])

\* token.replace("'", "")
RECURSIVE str_remove_apostrophes(_)
str_remove_apostrophes(s) ==
    IF s = <<>> THEN <<>>
    ELSE (IF Head(s) = "'" THEN <<>> ELSE <<Head(s)>>) \o str_remove_apostrophes(Tail(s))

\* str.strip()
RECURSIVE lstrip(_)
lstrip(s) == IF s # <<>> /\ char_isspace(Head(s)) THEN lstrip(Tail(s)) ELSE s
RECURSIVE rstrip(_)
rstrip(s) == IF s # <<>> /\ char_isspace(s[Len(s)])
             THEN rstrip(SubSeq(s, 1, Len(s) - 1)) ELSE s
str_strip(s) == rstrip(lstrip(s))

\* "".join(list of str)
RECURSIVE str_join(_)
str_join(ss) == IF ss = <<>> THEN <<>> ELSE Head(ss) \o str_join(Tail(ss))

(***************************************************************************)
(* converter.py                                                            *)
(***************************************************************************)
\* The character class [A-Za-z0-9'] of _TOKEN_RE.
WordClass == AsciiLower \cup AsciiUpper \cup AsciiDigit \cup {"'"}

\* Length of the longest prefix of s made of characters of class.
RECURSIVE RunLen(_, _)
RunLen(s, class) ==
    IF s # <<>> /\ Head(s) \in class THEN 1 + RunLen(Tail(s), class) ELSE 0

\* Mutant of LiteralMatch: the literal alternative written as `.`, which
\* does not match a newline, so findall skips it.
LiteralMatch_SkipsNewline(s) == IF Head(s) = "\n" THEN <<>> ELSE <<Head(s)>>

\* The literal alternative of _TOKEN_RE, [^A-Za-z0-9']: one character.
LiteralMatch(s) == <<Head(s)>>

\* _TOKEN_RE.findall(text): leftmost match, the first alternative greedy.
RECURSIVE findall(_)
findall(s) ==
    IF s = <<>> THEN <<>>
    ELSE IF Head(s) \in WordClass
         THEN LET n == RunLen(s, WordClass)
              IN  <<SubSeq(s, 1, n)>> \o findall(SubSeq(s, n + 1, Len(s)))
         ELSE <<LiteralMatch(s)>> \o findall(Tail(s))

\* re.sub(class+, " ", s): every maximal run of characters of class becomes
\* one space.
RECURSIVE re_sub_runs(_, _)
re_sub_runs(s, class) ==
    IF s = <<>> THEN <<>>
    ELSE IF Head(s) \in class
         THEN LET n == RunLen(s, class)
              IN  <<" ">> \o re_sub_runs(SubSeq(s, n + 1, Len(s)), class)
         ELSE <<Head(s)>> \o re_sub_runs(Tail(s), class)

\* [a-z0-9'\s], the characters normalize_text keeps.
KeepClass == AsciiLower \cup AsciiDigit \cup {"'"} \cup Whitespace

\* Mutant of normalize_text: the text is not lowercased first.
normalize_text_NoLower(text) ==
    LET cleaned == re_sub_runs(text, CHARS \ KeepClass)
    IN  str_strip(re_sub_runs(cleaned, Whitespace))

\* Mutant of normalize_text: the trailing .strip() is missing.
normalize_text_NoStrip(text) ==
    LET cleaned == re_sub_runs(str_lower(text), CHARS \ KeepClass)
    IN  re_sub_runs(cleaned, Whitespace)

normalize_text(text) ==
    LET lowered == str_lower(text)
        cleaned == re_sub_runs(lowered, CHARS \ KeepClass)
        collapsed == str_strip(re_sub_runs(cleaned, Whitespace))
    IN  collapsed


\* A Python dict is a function; dict.get yields <<>> for None and <<v>> for v.
dict_get(m, k) == IF k \in DOMAIN m THEN <<m[k]>> ELSE <<>>
dict_set(m, k, v) == [x \in DOMAIN m \cup {k} |-> IF x = k THEN v ELSE m[x]]

\* `not translated`: None and the empty string are both falsy.
Falsy(o) == o = <<>> \/ o[1] = <<>>

\* mapping.update(items): items is a sequence of <<key, value>>, later wins.
RECURSIVE dict_update(_, _)
dict_update(m, items) ==
    IF items = <<>> THEN m
    ELSE dict_update(dict_set(m, Head(items)[1], Head(items)[2]), Tail(items))

\* {k.lower(): v for k, v in dictionary.items()}, in iteration order.
LoweredItems(dictionary) ==
    [i \in DOMAIN dictionary |-> <<str_lower(dictionary[i][1]), dictionary[i][2]>>]

\* mapping = {**DEFAULT_DICTIONARY}; if dictionary: mapping.update(...).
\* A caller dictionary is its sequence of items; None and {} are both <<>>.
EffectiveMapping(dictionary) ==
    IF dictionary # <<>>
    THEN dict_update(DEFAULT_DICTIONARY, LoweredItems(dictionary))
    ELSE DEFAULT_DICTIONARY

\* Mutant of SyllableIndex: the position of the character is left out.
SyllableIndex_NoPosition(character, index, n) == ord(character) % n

\* The syllable picked for the character at 0-based position index.
SyllableIndex(character, index, n) == (ord(character) + index) % n

\* Mutant of _procedural_word: the emptiness test of the table is inverted.
_procedural_word_Inverted(word, syllables) ==
    IF word = <<>> THEN <<"ok", <<>>>>
    ELSE IF syllables # <<>> THEN <<"raise", "ValueError">>
    ELSE <<"ok", <<>>>>

_procedural_word(word, syllables) ==
    IF word = <<>> THEN <<"ok", <<>>>>
    ELSE IF syllables = <<>> THEN <<"raise", "ValueError">>
    ELSE LET pieces == [i \in DOMAIN word |->
                          syllables[SyllableIndex(word[i], i - 1, Len(syllables)) + 1]]
             last == word[Len(word)]
             suffix == IF last \in DOMAIN VOWEL_SUFFIXES
                       THEN <<VOWEL_SUFFIXES[last]>> ELSE <<>>
         IN  <<"ok", str_join(pieces \o suffix)>>

\* Mutant of _apply_casing: the capitalized branch uppercases the first
\* character and leaves the rest as it is (translated[0].upper() +
\* translated[1:]).
_apply_casing_KeepsRest(source, translated) ==
    IF source = <<>> THEN translated
    ELSE IF str_isupper(source) THEN str_upper(translated)
    ELSE IF char_isupper(source[1]) /\ translated # <<>>
         THEN char_upper(Head(translated)) \o Tail(translated)
    ELSE translated

\* Mutant of _apply_casing: the all-uppercase branch is missing.
_apply_casing_NoUpper(source, translated) ==
    IF source = <<>> THEN translated
    ELSE IF char_isupper(source[1]) THEN str_capitalize(translated)
    ELSE translated

_apply_casing(source, translated) ==
    IF source = <<>> THEN translated
    ELSE IF str_isupper(source) THEN str_upper(translated)
    ELSE IF char_isupper(source[1]) THEN str_capitalize(translated)
    ELSE translated

\* token.isalpha() or token.replace("'", "").isalnum()
IsWordLike(token) ==
    str_isalpha(token) \/ str_isalnum(str_remove_apostrophes(token))

\* The translation picked for a word-like token, before casing:
\* <<"ok", translated>> or the error of _procedural_word.
ChooseTranslation(token, mapping) ==
    LET lookup_key == str_lower(token)
        first == dict_get(mapping, lookup_key)
        second == IF Falsy(first)
                  THEN dict_get(mapping, normalize_text(token)) ELSE first
    IN  IF Falsy(second)
        THEN _procedural_word(normalize_text(token), _SYLLABLES)
        ELSE <<"ok", second[1]>>

\* One iteration of the loop over tokens.
TranslateToken(token, mapping) ==
    IF IsWordLike(token)
    THEN LET translated == ChooseTranslation(token, mapping)
         IN  IF translated[1] = "raise" THEN translated
             ELSE <<"ok", _apply_casing(token, translated[2])>>
    ELSE <<"ok", token>>

english_to_libran(text, dictionary) ==
    LET mapping == EffectiveMapping(dictionary)
        tokens == findall(text)
        translated_tokens == [i \in DOMAIN tokens |-> TranslateToken(tokens[i], mapping)]
        failed == {i \in DOMAIN tokens : translated_tokens[i][1] = "raise"}
    IN  IF failed # {}
        THEN translated_tokens[CHOOSE i \in failed : \A j \in failed : i <= j]
        ELSE <<"ok", str_join([i \in DOMAIN tokens |-> translated_tokens[i][2]])>>

(***************************************************************************)
(* One call of english_to_libran, statement by statement.  The frame of a  *)
(* call holds its locals.  The local mapping names a dict object: either   *)
(* the module's DEFAULT_DICTIONARY or the dict the call created, whose     *)
(* entries are new_dict.  A write through mapping changes the object it    *)
(* names.                                                                  *)
(***************************************************************************)
IdleFrame ==
    [pc |-> "idle", args |-> <<>>, dictionary |-> <<>>, mapping |-> "unbound",
     new_dict |-> <<>>, tokens |-> <<>>, translated_tokens |-> <<>>,
     ret |-> <<>>]

\* The frame on entry: dictionary is the caller's dict object, args what the
\* call was made with.
EnterFrame(text, dictionary) ==
    [IdleFrame EXCEPT !.pc = "mapping", !.args = <<text, dictionary>>,
                      !.dictionary = dictionary]

\* Mutant of BindMapping: mapping = DEFAULT_DICTIONARY, the module's dict
\* itself and not a copy of it.
BindMapping_Aliased(frame) ==
    [frame EXCEPT !.mapping = "DEFAULT_DICTIONARY", !.pc = "update"]

\* mapping = {**DEFAULT_DICTIONARY}: a new dict with the entries the default
\* dictionary has now.
BindMapping(frame) ==
    [frame EXCEPT !.mapping = "new", !.new_dict = DEFAULT_DICTIONARY,
                  !.pc = "update"]

\* The entries of the dict object that mapping names.
MappingObject(frame) ==
    IF frame.mapping = "DEFAULT_DICTIONARY" THEN DEFAULT_DICTIONARY
    ELSE frame.new_dict

\* if dictionary: mapping.update({k.lower(): v ...}): the entries of the
\* object mapping names, after the statement.
UpdatedMapping(frame) ==
    IF frame.dictionary # <<>>
    THEN dict_update(MappingObject(frame), LoweredItems(frame.dictionary))
    ELSE MappingObject(frame)

\* The frame and the default dictionary after the update statement: the
\* entries are written to the object mapping names.
UpdateMapping(frame) ==
    IF frame.mapping = "DEFAULT_DICTIONARY"
    THEN [frame |-> [frame EXCEPT !.pc = "findall"],
          DEFAULT_DICTIONARY |-> UpdatedMapping(frame)]
    ELSE [frame |-> [frame EXCEPT !.new_dict = UpdatedMapping(frame),
                                  !.pc = "findall"],
          DEFAULT_DICTIONARY |-> DEFAULT_DICTIONARY]

\* tokens = _TOKEN_RE.findall(text); translated_tokens = [].
FindTokens(frame) ==
    [frame EXCEPT !.tokens = findall(frame.args[1]),
                  !.translated_tokens = <<>>, !.pc = "loop"]

\* One iteration of the loop: the next token is translated with the entries
\* mapping names at that moment and appended; an error of _procedural_word
\* leaves the call.
TranslateNext(frame) ==
    LET token == frame.tokens[Len(frame.translated_tokens) + 1]
        translated == TranslateToken(token, MappingObject(frame))
    IN  IF translated[1] = "raise"
        THEN [IdleFrame EXCEPT !.pc = "done", !.args = frame.args,
                               !.dictionary = frame.dictionary,
                               !.ret = translated]
        ELSE [frame EXCEPT
                 !.translated_tokens = Append(@, translated[2])]

\* return "".join(translated_tokens): the locals are gone, the caller holds
\* the result and its dictionary.
JoinTokens(frame) ==
    [IdleFrame EXCEPT !.pc = "done", !.args = frame.args,
                      !.dictionary = frame.dictionary,
                      !.ret = <<"ok", str_join(frame.translated_tokens)>>]

\* The objects a call of english_to_libran shares with its caller, as the
\* statements that write leave them.  _procedural_word appends to its own
\* pieces only; no statement writes to _SYLLABLES, to VOWEL_SUFFIXES or to
\* the caller's dictionary.
SharedAfterTranslate(text, dictionary) ==
    LET bound == BindMapping(EnterFrame(text, dictionary))
        updated == UpdateMapping(bound)
    IN  [DEFAULT_DICTIONARY |-> updated.DEFAULT_DICTIONARY,
         SYLLABLES |-> _SYLLABLES,
         VOWEL_SUFFIXES |-> VOWEL_SUFFIXES,
         dictionary |-> updated.frame.dictionary]

(***************************************************************************)
(* Module constants of converter.py, as they are after import.             *)
(***************************************************************************)
DefaultDictionaryItems == <<
    <<<<"h","e","l","l","o">>, <<"v","a","l","o","r","i">>>>,
    <<<<"w","o","r","l","d">>, <<"z","e","n","i","t","h">>>>,
    <<<<"l","a","n","g","u","a","g","e">>, <<"o","r","a","t","i","l">>>>,
    <<<<"v","o","i","c","e">>, <<"s","o","n","a","r","i">>>>,
    <<<<"s","t","o","r","y">>, <<"m","y","t","h","r","a">>>>,
    <<<<"f","r","i","e","n","d">>, <<"k","a","l","e","t","h">>>>,
    <<<<"j","o","u","r","n","e","y">>, <<"s","e","r","e","t","h">>>>,
    <<<<"s","t","a","r">>, <<"l","y","r">>>>,
    <<<<"l","i","g","h","t">>, <<"p","h","o","r","a">>>>,
    <<<<"s","h","a","d","o","w">>, <<"u","m","b","r","a">>>> >>

DefaultDictionaryValue == dict_update(<<>>, DefaultDictionaryItems)

SyllablesValue == <<
    <<"l","i">>, <<"r","a">>, <<"b","a">>, <<"n","o">>, <<"k","a">>, <<"s","e">>,
    <<"t","u">>, <<"v","e","n">>, <<"z","o","r">>, <<"m","i">>, <<"p","h","a">>,
    <<"e","l">> >>

VowelSuffixesValue ==
    [c \in {"a", "e", "i", "o", "u"} |->
        CASE c = "a" -> <<"r","a">>
          [] c = "e" -> <<"r","i">>
          [] c = "i" -> <<"l","a">>
          [] c = "o" -> <<"n","o">>
          [] c = "u" -> <<"m","a">>]

(***************************************************************************)
(* synthesizer.py.  A frequency is kept in hundredths of a hertz, so that  *)
(* 493.88 is 49388 and 12.5 is 1250.  symbol_duration is kept in quarters  *)
(* of a second.  Bytes are the integers 0..255.                            *)
(***************************************************************************)
\* base_map of _char_frequency.
base_map ==
    [c \in {"a", "e", "i", "o", "u", "l", "r", "n", "s"} |->
        CASE c = "a" -> 44000
          [] c = "e" -> 49388
          [] c = "i" -> 52325
          [] c = "o" -> 58733
          [] c = "u" -> 65925
          [] c = "l" -> 39200
          [] c = "r" -> 41530
          [] c = "n" -> 34923
          [] c = "s" -> 32963]

\* character.lower() in base_map: a string of one character that is a key.
InBaseMap(lowered) == Len(lowered) = 1 /\ lowered[1] \in DOMAIN base_map

\* ord(character.lower()): TypeError unless the string has one character.
LetterFrequency(character) ==
    LET lowered == char_lower(character)
    IN  IF Len(lowered) # 1 THEN <<"raise", "TypeError">>
        ELSE LET offset == (ord(lowered[1]) - ord("a")) % 26
             IN  <<"ok", 30000 + offset * 1250>>

\* int(character): the decimal digits have a value, superscript two has none.
DigitFrequency(character) ==
    IF character \in AsciiDigit
    THEN <<"ok", 25000 + (IndexOf(DIGITS, character) - 1) * 2000>>
    ELSE IF character = "U+0663" THEN <<"ok", 25000 + 3 * 2000>>
    ELSE <<"raise", "ValueError">>

\* return 0.0
SilentFrequency == 0

_char_frequency(character) ==
    IF InBaseMap(char_lower(character))
    THEN <<"ok", base_map[char_lower(character)[1]]>>
    ELSE IF char_isalpha(character) THEN LetterFrequency(character)
    ELSE IF char_isdigit(character) THEN DigitFrequency(character)
    ELSE <<"ok", SilentFrequency>>

\* int(self.sample_rate * self.symbol_duration)
SamplesPerSymbol(sample_rate, durationQuarters) ==
    (sample_rate * durationQuarters) \div 4

\* The phase of sample index, in quarter turns: frequency * index /
\* sample_rate turns.  The calls modelled keep it a whole number.
QuarterTurns(frequency, index, sample_rate) ==
    (4 * frequency * index) \div (100 * sample_rate)

\* int(self.amplitude * math.sin(angle)) at a whole number of quarter turns.
Sample(amplitude, frequency, index, sample_rate) ==
    LET q == QuarterTurns(frequency, index, sample_rate) % 4
    IN  CASE q = 0 -> 0
          [] q = 1 -> amplitude
          [] q = 2 -> 0
          [] q = 3 -> 0 - amplitude

\* struct.pack("<h", sample): two bytes, little endian, two's complement;
\* struct.error outside -32768..32767.
PackShort(sample) ==
    IF sample < -32768 \/ sample > 32767 THEN <<"raise", "error">>
    ELSE LET u == (sample + 65536) % 65536
         IN  <<"ok", <<u % 256, u \div 256>>>>

\* b"\x00\x00" * samples_per_symbol
RECURSIVE Repeat(_, _)
Repeat(bytes, n) == IF n <= 0 THEN <<>> ELSE bytes \o Repeat(bytes, n - 1)

\* The inner loop of _frames_for_text for one voiced character, from sample
\* index on.
RECURSIVE ToneFrames(_, _, _, _, _)
ToneFrames(amplitude, frequency, index, samples_per_symbol, sample_rate) ==
    IF index >= samples_per_symbol THEN <<"ok", <<>>>>
    ELSE LET packed == PackShort(Sample(amplitude, frequency, index, sample_rate))
         IN  IF packed[1] = "raise" THEN packed
             ELSE LET rest == ToneFrames(amplitude, frequency, index + 1,
                                         samples_per_symbol, sample_rate)
                  IN  IF rest[1] = "raise" THEN rest
                      ELSE <<"ok", packed[2] \o rest[2]>>

\* The body of the loop over the characters of the text, for one character.
CharFrames(character, sample_rate, samples_per_symbol, amplitude) ==
    LET frequency == _char_frequency(character)
    IN  IF frequency[1] = "raise" THEN frequency
        ELSE IF frequency[2] = SilentFrequency
             THEN <<"ok", Repeat(<<0, 0>>, samples_per_symbol)>>
             ELSE ToneFrames(amplitude, frequency[2], 0, samples_per_symbol,
                             sample_rate)

RECURSIVE _frames_for_text(_, _, _, _)
_frames_for_text(text, sample_rate, durationQuarters, amplitude) ==
    IF text = <<>> THEN <<"ok", <<>>>>
    ELSE LET samples_per_symbol == SamplesPerSymbol(sample_rate, durationQuarters)
             first == CharFrames(Head(text), sample_rate, samples_per_symbol,
                                 amplitude)
         IN  IF first[1] = "raise" THEN first
             ELSE LET rest == _frames_for_text(Tail(text), sample_rate,
                                               durationQuarters, amplitude)
                  IN  IF rest[1] = "raise" THEN rest
                      ELSE <<"ok", first[2] \o rest[2]>>

\* Little-endian unsigned integers of the wave header.
LE16(n) == <<n % 256, (n \div 256) % 256>>
LE32(n) == <<n % 256, (n \div 256) % 256, (n \div 65536) % 256,
             (n \div 16777216) % 256>>

RIFF == <<82, 73, 70, 70>>
WAVE == <<87, 65, 86, 69>>
FMT == <<102, 109, 116, 32>>
DATA == <<100, 97, 116, 97>>

\* The header wave.open(buffer, "wb") leaves in the buffer on close, for one
\* channel (setnchannels(1)) of two-byte samples (setsampwidth(2)).
WaveHeader(sample_rate, datalength) ==
    RIFF \o LE32(36 + datalength) \o WAVE \o FMT \o LE32(16) \o LE16(1)
         \o LE16(1) \o LE32(sample_rate) \o LE32(1 * sample_rate * 2)
         \o LE16(1 * 2) \o LE16(2 * 8) \o DATA \o LE32(datalength)

synthesize(text, sample_rate, durationQuarters, amplitude) ==
    LET frames == _frames_for_text(text, sample_rate, durationQuarters, amplitude)
    IN  IF frames[1] = "raise" THEN frames
        ELSE <<"ok", WaveHeader(sample_rate, Len(frames[2])) \o frames[2]>>

\* The file system after save(text, path): the file holds the audio, or
\* nothing is written when synthesize raises.
save(text, path, sample_rate, durationQuarters, amplitude) ==
    LET audio == synthesize(text, sample_rate, durationQuarters, amplitude)
    IN  IF audio[1] = "raise"
        THEN [files |-> files, ret |-> audio]
        ELSE [files |-> [f \in DOMAIN files \cup {path} |->
                            IF f = path THEN audio[2] ELSE files[f]],
              ret |-> <<"ok", <<>>>>]

(***************************************************************************)
(* Inputs of the calls.                                                    *)
(***************************************************************************)
MaxPieces == 3      \* a text is at most this many pieces long
MaxSourceLen == 3   \* longest source token handed to _apply_casing
MaxWordLen == 3     \* longest word handed to _procedural_word

\* All sequences over alphabet of length at most n.
RECURSIVE SeqsUpTo(_, _)
SeqsUpTo(alphabet, n) ==
    IF n = 0 THEN {<<>>}
    ELSE LET shorter == SeqsUpTo(alphabet, n - 1)
         IN  shorter \cup {s \o <<c>> : s \in shorter, c \in alphabet}

\* All concatenations of at most n pieces.
RECURSIVE Concats(_, _)
Concats(pieces, n) ==
    IF n = 0 THEN {<<>>}
    ELSE LET shorter == Concats(pieces, n - 1)
         IN  shorter \cup {s \o p : s \in shorter, p \in pieces}

TextPieces == {
    <<"s","t","a","r">>, <<"S","t","a","r">>,
    <<"a">>, <<"A">>, <<"b">>, <<"1">>, <<"'">>,
    <<" ">>, <<"\n">>, <<"!">>,
    <<"U+00E9">>, <<"U+0130">> }

Texts == Concats(TextPieces, MaxPieces)

\* Caller dictionaries, each the sequence of its items.
DictNone == <<>>
DictOverride == << <<<<"s","t","a","r">>, <<"n","o">>>>,
                   <<<<"A","b">>, <<"x","Y">>>> >>
DictCollide == << <<<<"A">>, <<"x">>>>,
                  <<<<"a">>, <<"y">>>>,
                  <<<<>>, <<"z">>>> >>
DictEmptyValue == << <<<<"a">>, <<>>>> >>
DictSharpS == << <<<<"b">>, <<"U+00DF">>>> >>

Dictionaries == {DictNone, DictOverride, DictCollide, DictEmptyValue, DictSharpS}

\* The callers whose calls of english_to_libran overlap, and what they pass.
MaxCallers == 2
Callers == 1..MaxCallers
CallTexts == { <<"s","t","a","r">>, <<"A","b"," ","a">>, <<"B","!">> }
CallDictionaries == {DictNone, DictOverride, DictCollide, DictSharpS}

CasingSources == SeqsUpTo({"a", "A", "1", "'", "U+00C9"}, MaxSourceLen)
CasingCandidates == { <<>>, <<"l","y","r">>, <<"x","Y">>, <<"n","o","1">>,
                      <<"U+00DF">> }

Words == SeqsUpTo({"a", "e", "A", "b", "z", "1", "'"}, MaxWordLen)
SyllableTables == { SyllablesValue, <<>>, << <<"l","i">> >>,
                    << <<"l","i">>, <<"r","a">>, <<"b","a">> >> }

(***************************************************************************)
(* The calls.  A call is made from the idle state and leaves its result    *)
(* in ret; Return hands the result to the caller.                          *)
(***************************************************************************)
ConverterConstantsUnchanged ==
    UNCHANGED <<DEFAULT_DICTIONARY, _SYLLABLES, VOWEL_SUFFIXES, caller_dictionary>>

Init ==
    /\ DEFAULT_DICTIONARY = DefaultDictionaryValue
    /\ _SYLLABLES = SyllablesValue
    /\ VOWEL_SUFFIXES = VowelSuffixesValue
    /\ caller_dictionary = <<>>
    /\ calls = [c \in Callers |-> IdleFrame]
    /\ files = <<>>
    /\ op = "idle"
    /\ args = <<>>
    /\ ret = <<>>

Tokenize ==
    /\ op = "idle"
    /\ \E text \in Texts :
        /\ op' = "findall"
        /\ args' = <<text>>
        /\ ret' = <<"ok", findall(text)>>
        /\ ConverterConstantsUnchanged
        /\ UNCHANGED <<calls, files>>

Normalize ==
    /\ op = "idle"
    /\ \E text \in Texts :
        /\ op' = "normalize_text"
        /\ args' = <<text>>
        /\ ret' = <<"ok", normalize_text(text)>>
        /\ ConverterConstantsUnchanged
        /\ UNCHANGED <<calls, files>>

ProceduralWord ==
    /\ op = "idle"
    /\ \E word \in Words, syllables \in SyllableTables :
        /\ op' = "_procedural_word"
        /\ args' = <<word, syllables>>
        /\ ret' = _procedural_word(word, syllables)
        /\ ConverterConstantsUnchanged
        /\ UNCHANGED <<calls, files>>

ApplyCasing ==
    /\ op = "idle"
    /\ \E source \in CasingSources, translated \in CasingCandidates :
        /\ op' = "_apply_casing"
        /\ args' = <<source, translated>>
        /\ ret' = <<"ok", _apply_casing(source, translated)>>
        /\ ConverterConstantsUnchanged
        /\ UNCHANGED <<calls, files>>

Translate ==
    /\ op = "idle"
    /\ \E text \in Texts, dictionary \in Dictionaries :
        LET shared == SharedAfterTranslate(text, dictionary)
        IN  /\ op' = "english_to_libran"
            /\ args' = <<text, dictionary>>
            /\ ret' = english_to_libran(text, dictionary)
            /\ DEFAULT_DICTIONARY' = shared.DEFAULT_DICTIONARY
            /\ _SYLLABLES' = shared.SYLLABLES
            /\ VOWEL_SUFFIXES' = shared.VOWEL_SUFFIXES
            /\ caller_dictionary' = shared.dictionary
            /\ UNCHANGED <<calls, files>>

Return ==
    /\ op # "idle"
    /\ op' = "idle"
    /\ args' = <<>>
    /\ ret' = <<>>
    /\ caller_dictionary' = <<>>
    /\ UNCHANGED <<DEFAULT_DICTIONARY, _SYLLABLES, VOWEL_SUFFIXES>>
    /\ UNCHANGED <<calls, files>>

Next ==
    \/ Tokenize
    \/ Normalize
    \/ ProceduralWord
    \/ ApplyCasing
    \/ Translate
    \/ Return

Spec == Init /\ [][Next]_vars

(***************************************************************************)
(* Overlapping calls of english_to_libran.  Each caller runs its call one  *)
(* statement at a time, and the statements of the callers interleave in    *)
(* any order; a caller that has its result calls again.                    *)
(***************************************************************************)
SequentialUnchanged == UNCHANGED <<caller_dictionary, files, op, args, ret>>

Call(c) ==
    /\ calls[c].pc = "idle"
    /\ \E text \in CallTexts, dictionary \in CallDictionaries :
        calls' = [calls EXCEPT ![c] = EnterFrame(text, dictionary)]
    /\ UNCHANGED <<DEFAULT_DICTIONARY, _SYLLABLES, VOWEL_SUFFIXES>>
    /\ SequentialUnchanged

Bind(c) ==
    /\ calls[c].pc = "mapping"
    /\ calls' = [calls EXCEPT ![c] = BindMapping(calls[c])]
    /\ UNCHANGED <<DEFAULT_DICTIONARY, _SYLLABLES, VOWEL_SUFFIXES>>
    /\ SequentialUnchanged

Update(c) ==
    /\ calls[c].pc = "update"
    /\ LET after == UpdateMapping(calls[c])
       IN  /\ calls' = [calls EXCEPT ![c] = after.frame]
           /\ DEFAULT_DICTIONARY' = after.DEFAULT_DICTIONARY
    /\ UNCHANGED <<_SYLLABLES, VOWEL_SUFFIXES>>
    /\ SequentialUnchanged

Find(c) ==
    /\ calls[c].pc = "findall"
    /\ calls' = [calls EXCEPT ![c] = FindTokens(calls[c])]
    /\ UNCHANGED <<DEFAULT_DICTIONARY, _SYLLABLES, VOWEL_SUFFIXES>>
    /\ SequentialUnchanged

Loop(c) ==
    /\ calls[c].pc = "loop"
    /\ Len(calls[c].translated_tokens) < Len(calls[c].tokens)
    /\ calls' = [calls EXCEPT ![c] = TranslateNext(calls[c])]
    /\ UNCHANGED <<DEFAULT_DICTIONARY, _SYLLABLES, VOWEL_SUFFIXES>>
    /\ SequentialUnchanged

Join(c) ==
    /\ calls[c].pc = "loop"
    /\ Len(calls[c].translated_tokens) = Len(calls[c].tokens)
    /\ calls' = [calls EXCEPT ![c] = JoinTokens(calls[c])]
    /\ UNCHANGED <<DEFAULT_DICTIONARY, _SYLLABLES, VOWEL_SUFFIXES>>
    /\ SequentialUnchanged

TakeResult(c) ==
    /\ calls[c].pc = "done"
    /\ calls' = [calls EXCEPT ![c] = IdleFrame]
    /\ UNCHANGED <<DEFAULT_DICTIONARY, _SYLLABLES, VOWEL_SUFFIXES>>
    /\ SequentialUnchanged

CallersNext ==
    \E c \in Callers :
        \/ Call(c)
        \/ Bind(c)
        \/ Update(c)
        \/ Find(c)
        \/ Loop(c)
        \/ Join(c)
        \/ TakeResult(c)

CallersSpec == Init /\ [][CallersNext]_vars

(***************************************************************************)
(* Calls of the synthesizer.                                               *)
(***************************************************************************)
MaxSynthLen == 2       \* longest text handed to synthesize
MaxDurQuarters == 8    \* longest symbol_duration, in quarters of a second

\* The characters of the synthesized texts and the sample rates are those
\* that put every sample on a whole number of quarter turns.
SynthChars == {"a", "b", "0", " ", "!", "U+00B2", "U+0130"}
SynthTexts == SeqsUpTo(SynthChars, MaxSynthLen)
SampleRates == {1, 2}
Durations == 1..MaxDurQuarters
Amplitudes == {16000, 32767, -32768}

SaveTexts == {<<>>, <<"b">>, <<"!">>, <<"U+00B2">>}
SavePaths == {"sample.wav"}

CharFrequency ==
    /\ op = "idle"
    /\ \E character \in CHARS :
        /\ op' = "_char_frequency"
        /\ args' = <<character>>
        /\ ret' = _char_frequency(character)
        /\ ConverterConstantsUnchanged
        /\ UNCHANGED <<calls, files>>

Synthesize ==
    /\ op = "idle"
    /\ \E text \in SynthTexts, sample_rate \in SampleRates,
          durationQuarters \in Durations, amplitude \in Amplitudes :
        /\ op' = "synthesize"
        /\ args' = <<text, sample_rate, durationQuarters, amplitude>>
        /\ ret' = synthesize(text, sample_rate, durationQuarters, amplitude)
        /\ ConverterConstantsUnchanged
        /\ UNCHANGED <<calls, files>>

Save ==
    /\ op = "idle"
    /\ \E text \in SaveTexts, path \in SavePaths, sample_rate \in SampleRates,
          durationQuarters \in {4, MaxDurQuarters} :
        LET done == save(text, path, sample_rate, durationQuarters, 16000)
        IN  /\ op' = "save"
            /\ args' = <<text, path, sample_rate, durationQuarters, 16000>>
            /\ ret' = done.ret
            /\ files' = done.files
            /\ ConverterConstantsUnchanged
            /\ UNCHANGED calls

SynthNext ==
    \/ CharFrequency
    \/ Synthesize
    \/ Save
    \/ Return

SynthSpec == Init /\ [][SynthNext]_vars

(***************************************************************************)
(* Properties of the converter.                                            *)
(***************************************************************************)
IsAscii(c) == ord(c) < 128
AsciiStr(s) == \A i \in DOMAIN s : IsAscii(s[i])
HasLowercase(s) == \E i \in DOMAIN s : char_islower(s[i])

\* C1: the tokens of findall, concatenated in order, are the text; every
\* token is a non-empty run of characters of [A-Za-z0-9'] that no neighbouring
\* token extends, or exactly one character outside that class.
C1_TokenizerLossless ==
    op = "findall" =>
        LET text == args[1]
            tokens == ret[2]
            IsRun(t) == t # <<>> /\ \A i \in DOMAIN t : t[i] \in WordClass
            IsLiteral(t) == Len(t) = 1 /\ t[1] \notin WordClass
        IN  /\ ret[1] = "ok"
            /\ str_join(tokens) = text
            /\ \A i \in DOMAIN tokens : IsRun(tokens[i]) \/ IsLiteral(tokens[i])
            /\ \A i \in DOMAIN tokens :
                   (i > 1 /\ IsRun(tokens[i])) => ~IsRun(tokens[i - 1])

\* A text with a word of several characters, a newline and a character
\* outside ASCII has been tokenized.
C1_Witness ==
    /\ op = "findall"
    /\ args = << <<"s", "t", "a", "r", "\n", "U+00E9">> >>
    /\ ret = <<"ok", << <<"s", "t", "a", "r">>, <<"\n">>, <<"U+00E9">> >> >>

\* The caller's values whose lowercased key is the lowercased token.
CallerValues(token, dictionary) ==
    {dictionary[i][2] : i \in {j \in DOMAIN dictionary :
                                   str_lower(dictionary[j][1]) = str_lower(token)}}

\* C2: for each word-like token, the translation chosen is the caller's value
\* when a caller key matches the lowercased token (whatever the value), else
\* the default value when DEFAULT_DICTIONARY has the key, and the generator is
\* used only when neither has it.
C2_DictionaryPrecedence ==
    op = "english_to_libran" =>
        LET dictionary == args[2]
            mapping == EffectiveMapping(dictionary)
            tokens == findall(args[1])
            Generated(t) == _procedural_word(normalize_text(t), _SYLLABLES)
        IN  \A i \in DOMAIN tokens :
                LET t == tokens[i]
                    chosen == ChooseTranslation(t, mapping)
                    byCaller == CallerValues(t, dictionary)
                    inDefault == str_lower(t) \in DOMAIN DEFAULT_DICTIONARY
                IN  IsWordLike(t) =>
                        /\ byCaller # {} => chosen \in {<<"ok", v>> : v \in byCaller}
                        /\ (byCaller = {} /\ inDefault) =>
                               chosen = <<"ok", DEFAULT_DICTIONARY[str_lower(t)]>>
                        /\ (byCaller # {} \/ inDefault) =>
                               (chosen = Generated(t) =>
                                    chosen \in {<<"ok", v>> : v \in byCaller}
                                        \cup {<<"ok", DEFAULT_DICTIONARY[k]>> :
                                                 k \in DOMAIN DEFAULT_DICTIONARY})

\* C3: every token that is one character outside [A-Za-z0-9'], and every token
\* made only of apostrophes, appears unchanged in the output at its position
\* among the translated tokens.
C3_LiteralPassThrough ==
    op = "english_to_libran" =>
        LET mapping == EffectiveMapping(args[2])
            tokens == findall(args[1])
            PassedThrough(t) ==
                \/ Len(t) = 1 /\ t[1] \notin WordClass
                \/ \A i \in DOMAIN t : t[i] = "'"
            piece(t) == IF PassedThrough(t) THEN t ELSE TranslateToken(t, mapping)[2]
        IN  ret = <<"ok", str_join([i \in DOMAIN tokens |-> piece(tokens[i])])>>

IsWord(text) == \A i \in DOMAIN text : text[i] \in WordClass

\* A word and its all-lowercase and all-uppercase variants translate to
\* strings that are equal once lowercased.
CaseVariantsAgree ==
    LET w == args[1]
        d == args[2]
        low(r) == IF r[1] = "ok" THEN <<"ok", str_lower(r[2])>> ELSE r
    IN  /\ low(ret) = low(english_to_libran(str_lower(w), d))
        /\ low(ret) = low(english_to_libran(str_upper(w), d))

\* C4 as stated: for every word over [A-Za-z0-9'] and every override
\* dictionary, case-only variants of the word translate to the same string up
\* to letter case.
C4_CaseInsensitiveAnyDictionary ==
    (op = "english_to_libran" /\ IsWord(args[1])) => CaseVariantsAgree

\* C4, amended: the same for every override dictionary whose values are ASCII
\* strings, both for words found in the effective dictionary and for words
\* the generator makes.
C4_CaseInsensitiveAsciiValues ==
    (/\ op = "english_to_libran"
     /\ IsWord(args[1])
     /\ \A i \in DOMAIN args[2] : AsciiStr(args[2][i][2])) => CaseVariantsAgree

\* "Ab" has been translated through the caller's entry for "Ab", and
\* capitalized.
C4_Witness ==
    /\ op = "english_to_libran"
    /\ args = << <<"A", "b">>, DictOverride >>
    /\ ret = <<"ok", <<"X", "y">>>>

\* C5 as stated: a non-empty source token none of whose letters is lowercase,
\* a token without any letter included, gets the candidate uppercased in
\* full, with no lowercase letter left.
C5_AllUppercaseIncludingNoLetter ==
    (op = "_apply_casing" /\ args[1] # <<>> /\ ~HasLowercase(args[1])) =>
        /\ ret = <<"ok", str_upper(args[2])>>
        /\ ~HasLowercase(ret[2])

\* C5, amended: a source token with at least one uppercase letter and no
\* lowercase letter gets the candidate uppercased in full, and an ASCII
\* candidate is left with no lowercase letter.
C5_AllUppercaseWithALetter ==
    (op = "_apply_casing" /\ str_isupper(args[1])) =>
        /\ ret = <<"ok", str_upper(args[2])>>
        /\ AsciiStr(args[2]) => ~HasLowercase(ret[2])

\* "A1", uppercase letter and digit, has uppercased "lyr".
C5_Witness ==
    /\ op = "_apply_casing"
    /\ args = << <<"A", "1">>, <<"l", "y", "r">> >>
    /\ ret = <<"ok", <<"L", "Y", "R">>>>

\* C6: the result of normalize_text has only characters of [a-z0-9' ], no two
\* consecutive spaces, no space at either end, is empty when the input has no
\* letter, digit or apostrophe, and is a fixed point of normalize_text.
C6_NormalizerGuarantee ==
    op = "normalize_text" =>
        LET text == args[1]
            out == ret[2]
        IN  /\ ret[1] = "ok"
            /\ \A i \in DOMAIN out :
                   out[i] \in AsciiLower \cup AsciiDigit \cup {"'", " "}
            /\ \A i \in DOMAIN out : (i > 1 /\ out[i] = " ") => out[i - 1] # " "
            /\ out # <<>> => (out[1] # " " /\ out[Len(out)] # " ")
            /\ (\A i \in DOMAIN text : ~char_isalnum(text[i]) /\ text[i] # "'")
                   => out = <<>>
            /\ normalize_text(out) = out

\* "A!\n" has been normalized to "a".
C6_Witness ==
    /\ op = "normalize_text"
    /\ args = << <<"A", "!", "\n">> >>
    /\ ret = <<"ok", <<"a">>>>

\* C10: english_to_libran returns a string for every text and dictionary, the
\* syllable table the generator reads is not empty, and the empty text gives
\* the empty string.
C10_TranslatorTotal ==
    /\ _SYLLABLES # <<>>
    /\ op = "english_to_libran" =>
           /\ ret[1] = "ok"
           /\ args[1] = <<>> => ret[2] = <<>>

\* A text of a letter outside ASCII, punctuation and a digit has been
\* translated, the generator making "MILA" and "ra".
C10_Witness ==
    /\ op = "english_to_libran"
    /\ args = << <<"U+0130", "!", "1">>, DictNone >>
    /\ ret = <<"ok", <<"M", "I", "L", "A", "!", "r", "a">>>>

(***************************************************************************)
(* Properties of the synthesizer.                                          *)
(***************************************************************************)
HeaderLength == Len(WaveHeader(1, 0))

\* C7: synthesize returns, for every text, bytes that begin with "RIFF" and
\* are a 44-byte header and len(text) * samples_per_symbol two-byte samples;
\* one more character or a longer symbol never shortens them; save writes
\* exactly these bytes to the path.
C7_AudioSizeAndHeader ==
    /\ op = "synthesize" =>
           LET text == args[1]
               n == SamplesPerSymbol(args[2], args[3])
               longer == synthesize(text, args[2], args[3] + 1, args[4])
           IN  /\ ret[1] = "ok"
               /\ HeaderLength = 44
               /\ SubSeq(ret[2], 1, 4) = RIFF
               /\ Len(ret[2]) = 44 + 2 * Len(text) * n
               /\ text = <<>> => Len(ret[2]) = 44
               /\ longer[1] = "ok" => Len(longer[2]) >= Len(ret[2])
               /\ \A c \in SynthChars :
                      LET more == synthesize(text \o <<c>>, args[2], args[3], args[4])
                      IN  more[1] = "ok" => Len(more[2]) >= Len(ret[2])
    /\ op = "save" =>
           /\ ret[1] = "ok"
           /\ args[2] \in DOMAIN files
           /\ <<"ok", files[args[2]]>> = synthesize(args[1], args[3], args[4], args[5])

\* A character that is not in base_map, not a letter and not a digit.
IsSilent(c) ==
    /\ ~InBaseMap(char_lower(c))
    /\ ~char_isalpha(c)
    /\ ~char_isdigit(c)

\* C8: _char_frequency gives 0 exactly for the characters that are not in the
\* table, not letters and not digits, and a frequency above 0 for every letter
\* and every digit; each silent character of a synthesized text has a block of
\* samples_per_symbol zero samples.
C8_SilenceProperty ==
    /\ op = "_char_frequency" =>
           /\ ret = <<"ok", 0>> <=> IsSilent(args[1])
           /\ ~IsSilent(args[1]) => (ret[1] = "ok" /\ ret[2] > 0)
    /\ (op = "synthesize" /\ ret[1] = "ok") =>
           LET text == args[1]
               n == SamplesPerSymbol(args[2], args[3])
           IN  \A i \in DOMAIN text :
                   IsSilent(text[i]) =>
                       \A k \in (44 + 2 * n * (i - 1) + 1)..(44 + 2 * n * i) :
                           ret[2][k] = 0

\* C9: with an amplitude in -32768..32767, neither the frequency of a
\* character nor the packing of a sample fails, so synthesize returns for
\* every text.
C9_SynthesizerTotal ==
    /\ op = "_char_frequency" => ret[1] = "ok"
    /\ (op = "synthesize" /\ args[4] \in -32768..32767) => ret[1] = "ok"

(***************************************************************************)
(* Properties of the shared state and of the helpers.                      *)
(***************************************************************************)
\* The translation of a word of the initial default dictionary, cased as
\* its source token.
InitialDefaultTranslation(text) ==
    _apply_casing(text, DefaultDictionaryValue[str_lower(text)])

\* C11: in every state that overlapping calls of english_to_libran with any
\* override dictionaries can reach, DEFAULT_DICTIONARY, _SYLLABLES and
\* VOWEL_SUFFIXES hold their initial contents and every caller's dictionary
\* holds what it was passed with; the result of a finished call is the one
\* its own text and dictionary give alone, and a call without override of a
\* word of the default dictionary returns the initial default translation,
\* whatever calls ran before or beside it.
C11_NoSharedMutableState ==
    /\ DEFAULT_DICTIONARY = DefaultDictionaryValue
    /\ _SYLLABLES = SyllablesValue
    /\ VOWEL_SUFFIXES = VowelSuffixesValue
    /\ \A c \in Callers :
        /\ calls[c].pc # "idle" => calls[c].dictionary = calls[c].args[2]
        /\ calls[c].pc = "done" =>
            /\ calls[c].ret = english_to_libran(calls[c].args[1], calls[c].args[2])
            /\ (/\ calls[c].args[2] = DictNone
                /\ IsWord(calls[c].args[1])
                /\ str_lower(calls[c].args[1]) \in DOMAIN DefaultDictionaryValue) =>
                   calls[c].ret = <<"ok", InitialDefaultTranslation(calls[c].args[1])>>

\* Caller 1 is inside a call that overrides "star": its own mapping already
\* holds the caller's "no" and it has not returned.  Meanwhile caller 2 has
\* finished a call without override and got the default "lyr".
C11_Witness ==
    /\ calls[1].pc = "loop"
    /\ calls[1].args = << <<"s","t","a","r">>, DictOverride >>
    /\ calls[1].mapping = "new"
    /\ calls[1].new_dict[<<"s","t","a","r">>] = <<"n","o">>
    /\ calls[2].pc = "done"
    /\ calls[2].args = << <<"s","t","a","r">>, DictNone >>
    /\ calls[2].ret = <<"ok", <<"l","y","r">>>>
    /\ DEFAULT_DICTIONARY[<<"s","t","a","r">>] = <<"l","y","r">>

\* The candidate with its first character uppercased and the rest lowercased.
Capitalized(translated) ==
    IF translated = <<>> THEN <<>>
    ELSE char_title(Head(translated)) \o str_lower(Tail(translated))

\* C12 as stated: for a non-empty source token that is not all-uppercase, the
\* candidate is capitalized if only the first character of the source is
\* uppercase, and unchanged otherwise, a mixed-case source with a later
\* uppercase letter such as "McDonald" included.
C12_CapitalizedOnlyFirstUpper ==
    (op = "_apply_casing" /\ args[1] # <<>> /\ ~str_isupper(args[1])) =>
        LET source == args[1]
            onlyFirst == /\ char_isupper(source[1])
                         /\ \A i \in DOMAIN source : i > 1 => ~char_isupper(source[i])
        IN  ret = <<"ok", IF onlyFirst THEN Capitalized(args[2]) ELSE args[2]>>

\* C12, amended: for a non-empty source token that is not all-uppercase, the
\* candidate is capitalized if the first character of the source is
\* uppercase, whatever the case of the later ones, and unchanged if the first
\* character is not uppercase.
C12_CapitalizedFirstUpper ==
    (op = "_apply_casing" /\ args[1] # <<>> /\ ~str_isupper(args[1])) =>
        ret = <<"ok", IF char_isupper(args[1][1])
                      THEN Capitalized(args[2]) ELSE args[2]>>

\* The mixed-case source "AaA" has capitalized "xY" to "Xy".
C12_Witness ==
    /\ op = "_apply_casing"
    /\ args = << <<"A", "a", "A">>, <<"x", "Y">> >>
    /\ ret = <<"ok", <<"X", "y">>>>

\* The syllables of table picked by the characters of word from the 1-based
\* position i on: character i picks entry (code point + i - 1) mod len(table).
RECURSIVE PickedSyllables(_, _, _)
PickedSyllables(word, table, i) ==
    IF i > Len(word) THEN <<>>
    ELSE table[((ord(word[i]) + (i - 1)) % Len(table)) + 1]
             \o PickedSyllables(word, table, i + 1)

\* C13: for a non-empty word and a non-empty table, _procedural_word returns
\* the syllables picked by its characters, in order, followed by the suffix of
\* the last character exactly when that character is a, e, i, o or u; the
\* empty word gives the empty string.
C13_ProceduralFormula ==
    (op = "_procedural_word" /\ args[2] # <<>>) =>
        LET word == args[1]
            table == args[2]
            last == word[Len(word)]
            suffix == IF last \in {"a", "e", "i", "o", "u"}
                      THEN VowelSuffixesValue[last] ELSE <<>>
        IN  IF word = <<>> THEN ret = <<"ok", <<>>>>
            ELSE ret = <<"ok", PickedSyllables(word, table, 1) \o suffix>>

\* "bze" has been generated from the default table: "ba" for b, "no" for z at
\* position 1, "ven" for e at position 2, and the suffix "ri" of e.
C13_Witness ==
    /\ op = "_procedural_word"
    /\ args = << <<"b", "z", "e">>, SyllablesValue >>
    /\ ret = <<"ok", <<"b","a","n","o","v","e","n","r","i">>>>

\* C14: with an empty syllable table _procedural_word raises for every word,
\* the empty word included, and returns no pseudo-word.
C14_EmptyTableFailsFast ==
    (op = "_procedural_word" /\ args[2] = <<>>) => ret[1] = "raise"

====
